---- MODULE Spec2Model ----
(***************************************************************************)
(* BerryFrame: the ConnectionManager singleton and its observers, the      *)
(* API-function adapters, and the command invoker with its history.        *)
(* The program is single-threaded and blocking, so every call is one       *)
(* atomic action; what a call did, in order, is kept in the record `call`. *)
(***************************************************************************)
EXTENDS Integers, Sequences, FiniteSets, TLC

VARIABLES
    instance,     \* ConnectionManager._instance: 0 is None, else the manager's id
    created,      \* number of ConnectionManager objects constructed so far (ids 1..created)
    observers,    \* observers[m]: the list self._observers of manager m
    ssh_client,   \* ssh_client[m]: the session state of manager m's transport handle
    channels,     \* channels[m]: SFTP channels opened on m's transport and not closed
    history,      \* SSHCommandInvoker.history: the list of (command, result) pairs
    acquired,     \* the managers get_instance() returned since the last reset_instance()
    returned,     \* number of invoker execute_command calls that returned
    controllers,  \* the SSHController objects constructed so far, with their fields
    cli,          \* the process running main(): where it is and how it ended
    call          \* the most recent call: what was called, what it did, how it ended

vars == <<instance, created, observers, ssh_client, channels, history, acquired, returned,
          controllers, cli, call>>

----------------------------------------------------------------------------
(* Bounds of the model *)

MaxManagers == 2
MaxObservers == 3
MaxChannels == 2
MaxHistory == 2
MaxOutputLen == 3
MaxControllers == 2
MaxMenus == 3

ManagerIds == 1..MaxManagers

\* The two observer classes of the controller; an observer object is named by its class.
ObserverIds == {"ConnectionStatusLogger", "ConnectionAlertSystem"}

\* The errors the adapter layer names, and one it does not.
TransportErrors == {"SSHException", "AuthenticationException", "ConnectionResetError"}
OtherErrors == {"TimeoutError"}
AnyError == TransportErrors \cup OtherErrors

----------------------------------------------------------------------------
(* Values *)

\* A Python value a call returns: None, a string (a sequence of characters or
\* text pieces), or a reference to a manager.
RNone == [kind |-> "None", str |-> <<>>, ref |-> 0]
RStr(s) == [kind |-> "str", str |-> s, ref |-> 0]
RRef(m) == [kind |-> "ref", str |-> <<>>, ref |-> m]

NoCall == [op |-> "none", self |-> 0, args |-> <<>>, before |-> "Disconnected",
           io |-> <<>>, out |-> <<>>, events |-> <<>>, raised |-> "", raiser |-> 0,
           result |-> RNone]

\* The process of main() before it is started.
NotStarted == [pc |-> "not started", controller |-> 0, menus |-> 0, exit_code |-> -1]

Min(a, b) == IF a <= b THEN a ELSE b

RECURSIVE SumLen(_, _)
SumLen(f, S) ==
    IF S = {} THEN 0
    ELSE LET m == CHOOSE x \in S : TRUE IN Len(f[m]) + SumLen(f, S \ {m})

\* Observer entries attached over all managers.
Attached == SumLen(observers, ManagerIds)

Managers == 1..created

\* The (host, port, username, password, key_path) a caller passes to connect.
ConnectParams == {<<"host", "22", "user", "pass", "key">>}

----------------------------------------------------------------------------
(* ConnectionManager *)

Init ==
    /\ instance = 0
    /\ created = 0
    /\ observers = [m \in ManagerIds |-> <<>>]
    /\ ssh_client = [m \in ManagerIds |-> "Disconnected"]
    /\ channels = [m \in ManagerIds |-> 0]
    /\ history = <<>>
    /\ acquired = {}
    /\ returned = 0
    /\ controllers = <<>>
    /\ cli = NotStarted
    /\ call = NoCall

\* __init__: refuses when a singleton is registered, else builds a manager with a
\* fresh transport handle and no observers. The new object is not registered.
Construct ==
    /\ IF instance # 0
       THEN /\ call' = [NoCall EXCEPT !.op = "ConnectionManager", !.raised = "RuntimeError"]
            /\ UNCHANGED <<created, observers, ssh_client, channels>>
       ELSE /\ created < MaxManagers
            /\ created' = created + 1
            /\ observers' = [observers EXCEPT ![created + 1] = <<>>]
            /\ ssh_client' = [ssh_client EXCEPT ![created + 1] = "Disconnected"]
            /\ channels' = [channels EXCEPT ![created + 1] = 0]
            /\ call' = [NoCall EXCEPT !.op = "ConnectionManager", !.self = created + 1,
                                      !.result = RRef(created + 1)]
    /\ UNCHANGED <<controllers, cli, instance, history, acquired, returned>>

\* get_instance with no instance registered constructs one and registers it.
MustCreate_Always(inst) == TRUE
MustCreate(inst) == inst = 0

\* get_instance as a step of a larger call: the registered manager afterwards.
\* (The construction inside it cannot raise: _instance is None when it runs.)
InstanceAfterGet == IF MustCreate(instance) THEN created + 1 ELSE instance

GetInstanceEffect ==
    /\ MustCreate(instance) => created < MaxManagers
    /\ instance' = InstanceAfterGet
    /\ created' = IF MustCreate(instance) THEN created + 1 ELSE created
    /\ acquired' = acquired \cup {InstanceAfterGet}

GetInstance ==
    /\ GetInstanceEffect
    /\ call' = [NoCall EXCEPT !.op = "get_instance", !.self = InstanceAfterGet,
                              !.io = <<IF MustCreate(instance) THEN "created" ELSE "existing">>,
                              !.result = RRef(InstanceAfterGet)]
    /\ UNCHANGED <<controllers, cli, observers, ssh_client, channels, history, returned>>

ResetInstance ==
    /\ instance' = 0
    /\ acquired' = {}
    /\ call' = [NoCall EXCEPT !.op = "reset_instance"]
    /\ UNCHANGED <<controllers, cli, created, observers, ssh_client, channels, history, returned>>

Attach(m, o) ==
    /\ Attached < MaxObservers
    /\ observers' = [observers EXCEPT ![m] = Append(@, o)]
    /\ call' = [NoCall EXCEPT !.op = "attach", !.self = m, !.args = <<o>>,
                              !.before = ssh_client[m]]
    /\ UNCHANGED <<controllers, cli, instance, created, ssh_client, channels, history, acquired, returned>>

\* list.remove: drops the first entry equal to o.
RECURSIVE Remove_SwapLast(_, _)
Remove_SwapLast(list, o) ==
    IF list = <<>> THEN <<>>
    ELSE IF Head(list) = o
         THEN (IF Len(list) = 1 THEN <<>>
               ELSE <<list[Len(list)]>> \o SubSeq(list, 2, Len(list) - 1))
    ELSE <<Head(list)>> \o Remove_SwapLast(Tail(list), o)
RECURSIVE Remove(_, _)
Remove(list, o) ==
    IF list = <<>> THEN <<>>
    ELSE IF Head(list) = o THEN Tail(list)
    ELSE <<Head(list)>> \o Remove(Tail(list), o)

InList_Always(list, o) == TRUE
InList(list, o) == \E i \in 1..Len(list) : list[i] = o

Detach(m, o) ==
    /\ IF InList(observers[m], o)
       THEN /\ observers' = [observers EXCEPT ![m] = Remove(@, o)]
            /\ call' = [NoCall EXCEPT !.op = "detach", !.self = m, !.args = <<o>>,
                                      !.before = ssh_client[m]]
       ELSE /\ UNCHANGED observers
            /\ call' = [NoCall EXCEPT !.op = "detach", !.self = m, !.args = <<o>>,
                                      !.before = ssh_client[m], !.raised = "ValueError"]
    /\ UNCHANGED <<controllers, cli, instance, created, ssh_client, channels, history, acquired, returned>>

\* notify: update is called on the observers in list order; the n-th call raises
\* (n = Len(list) + 1: none does), which ends the loop.
NotifyEvents_All(list, status, n) ==
    [i \in 1..Len(list) |-> <<"update", list[i], status>>]
NotifyEvents_Reversed(list, status, n) ==
    [i \in 1..Min(n, Len(list)) |-> <<"update", list[Len(list) + 1 - i], status>>]
NotifyEvents(list, status, n) ==
    [i \in 1..Min(n, Len(list)) |-> <<"update", list[i], status>>]

NotifyRaised(list, n) == IF n <= Len(list) THEN "ObserverError" ELSE ""

\* The position in the list of the observer whose update raised, 0 for none.
NotifyRaiser(list, n) == IF n <= Len(list) THEN n ELSE 0

\* connect: the transport's connect, which may raise, then notify("Connected").
ConnectNotifies_Never(outcome) == FALSE
ConnectNotifies(outcome) == outcome = "ok"

ConnectStatus_Always(old, outcome) == "Connected"
ConnectStatus(old, outcome) == IF outcome = "ok" THEN "Connected" ELSE old

ConnectCall(m, params, outcome, n) ==
    [NoCall EXCEPT
       !.op = "connect", !.self = m, !.args = params,
       !.before = ssh_client[m],
       !.io = <<outcome>>,
       !.events = <<<<"ssh_client.connect">> \o params>>
                  \o (IF ConnectNotifies(outcome)
                      THEN NotifyEvents(observers[m], "Connected", n)
                      ELSE <<>>),
       !.raised = IF outcome # "ok" THEN outcome
                  ELSE IF ConnectNotifies(outcome)
                       THEN NotifyRaised(observers[m], n) ELSE "",
       !.raiser = IF ConnectNotifies(outcome) THEN NotifyRaiser(observers[m], n) ELSE 0]

Connect(m, params, outcome, n) ==
    /\ ssh_client' = [ssh_client EXCEPT ![m] = ConnectStatus(@, outcome)]
    /\ call' = ConnectCall(m, params, outcome, n)
    /\ UNCHANGED <<controllers, cli, instance, created, observers, channels, history, acquired, returned>>

\* disconnect: the transport's close (which ends its channels too), then
\* notify("Disconnected"). There is no guard on the state.
DisconnectStatus(old) == "Disconnected"

\* disconnect reaches self.notify whatever the state was: no condition stands
\* before it.
DisconnectNotifies_OnlyConnected(old) == old = "Connected"
DisconnectNotifies(old) == TRUE

DisconnectCall(m, n) ==
    [NoCall EXCEPT
       !.op = "disconnect", !.self = m,
       !.before = ssh_client[m],
       !.events = <<<<"ssh_client.close">>>>
                  \o (IF DisconnectNotifies(ssh_client[m])
                      THEN NotifyEvents(observers[m], "Disconnected", n)
                      ELSE <<>>),
       !.raised = IF DisconnectNotifies(ssh_client[m])
                  THEN NotifyRaised(observers[m], n) ELSE "",
       !.raiser = IF DisconnectNotifies(ssh_client[m])
                  THEN NotifyRaiser(observers[m], n) ELSE 0]

Disconnect(m, n) ==
    /\ ssh_client' = [ssh_client EXCEPT ![m] = DisconnectStatus(@)]
    /\ channels' = [channels EXCEPT ![m] = 0]
    /\ call' = DisconnectCall(m, n)
    /\ UNCHANGED <<controllers, cli, instance, created, observers, history, acquired, returned>>

ConnectOutcomes == {"ok"} \cup AnyError

DoAttach == \E m \in Managers, o \in ObserverIds : Attach(m, o)
DoDetach == \E m \in Managers, o \in ObserverIds : Detach(m, o)
DoConnect ==
    \E m \in Managers, p \in ConnectParams, outcome \in ConnectOutcomes :
        \E n \in 1..(Len(observers[m]) + 1) :
            /\ outcome # "ok" => n = Len(observers[m]) + 1
            /\ Connect(m, p, outcome, n)
DoDisconnect ==
    \E m \in Managers : \E n \in 1..(Len(observers[m]) + 1) : Disconnect(m, n)

Next ==
    \/ Construct
    \/ GetInstance
    \/ ResetInstance
    \/ DoAttach
    \/ DoDetach
    \/ DoConnect
    \/ DoDisconnect

Spec == Init /\ [][Next]_vars

\* The one registered manager as a subject: observers of any Observer subclass
\* come and go between its connects and disconnects.
AnyObserverIds == ObserverIds \cup {"Observer"}

DoAttachAny == \E m \in Managers, o \in AnyObserverIds : Attach(m, o)
DoDetachAny == \E m \in Managers, o \in AnyObserverIds : Detach(m, o)

NextObservers ==
    \/ GetInstance
    \/ DoAttachAny
    \/ DoDetachAny
    \/ DoConnect
    \/ DoDisconnect

SpecObservers == Init /\ [][NextObservers]_vars

----------------------------------------------------------------------------
(* Strings *)

\* A command or message is a sequence of text pieces; a remote output is a
\* sequence of characters.
OutputChars == {" ", "\n", "x"}
Whitespace == {" ", "\t", "\n", "\r", "\f"}

RECURSIVE SeqsUpTo(_, _)
SeqsUpTo(S, n) ==
    IF n = 0 THEN {<<>>}
    ELSE LET shorter == SeqsUpTo(S, n - 1)
         IN shorter \cup {Append(t, c) : t \in shorter, c \in S}

Outputs == SeqsUpTo(OutputChars, MaxOutputLen)

\* str.strip(): drops the whitespace at both ends.
RECURSIVE LStrip(_)
LStrip(s) ==
    IF s # <<>> /\ Head(s) \in Whitespace THEN LStrip(Tail(s)) ELSE s

RECURSIVE RStrip(_)
RStrip(s) ==
    IF s # <<>> /\ s[Len(s)] \in Whitespace THEN RStrip(SubSeq(s, 1, Len(s) - 1)) ELSE s

Strip_LeftOnly(s) == LStrip(s)
Strip(s) == RStrip(LStrip(s))

\* str(e) of an error the transport raised.
ErrorText(e) == <<"str(" \o e \o ")">>

----------------------------------------------------------------------------
(* API functions: ExecuteRemoteCommand, UploadFile, DownloadFile *)

RemoteCommands == {<<"ls -l">>, <<"uptime">>}

\* The except clause of ExecuteRemoteCommand.execute.
Caught_OnlySSH(e) == e = "SSHException"
Caught(e) == e \in {"SSHException", "AuthenticationException", "ConnectionResetError"}

ErrorString(command, e) ==
    <<"Error executing command '">> \o command \o <<"': ">> \o ErrorText(e)

\* What ExecuteRemoteCommand.execute returns: the stripped output, or the error
\* string for a caught error (None stands for "raised").
AdapterReturn(command, outcome, out) ==
    IF outcome = "ok" THEN RStr(Strip(out))
    ELSE IF Caught(outcome) THEN RStr(ErrorString(command, outcome))
    ELSE RNone

AdapterRaised_Swallowed(outcome) == ""
AdapterRaised(outcome) == IF outcome = "ok" \/ Caught(outcome) THEN "" ELSE outcome

\* ExecuteRemoteCommand.execute(command): the registered manager runs the command
\* on its transport (outcome "ok" with output out, or an error raised); the
\* output is stripped, a caught error becomes the error string.
ExecuteRemoteCommand(command, outcome, out) ==
    /\ GetInstanceEffect
    /\ outcome = "ok" => ssh_client[InstanceAfterGet] = "Connected"
    /\ call' = [NoCall EXCEPT
                  !.op = "ExecuteRemoteCommand.execute", !.self = InstanceAfterGet,
                  !.args = command,
                  !.before = ssh_client[InstanceAfterGet],
                  !.io = <<outcome>>,
                  !.out = IF outcome = "ok" THEN out ELSE <<>>,
                  !.events = <<<<"exec_command">> \o command>>,
                  !.raised = AdapterRaised(outcome),
                  !.result = AdapterReturn(command, outcome, out)]
    /\ UNCHANGED <<controllers, cli, observers, ssh_client, channels, history, returned>>

DoExecuteRemoteCommand ==
    \E command \in RemoteCommands, outcome \in {"ok"} \cup AnyError, out \in Outputs :
        /\ outcome # "ok" => out = <<>>
        /\ ExecuteRemoteCommand(command, outcome, out)

Paths == {"a.txt", "b.txt"}
TransferErrors == {"IOError", "SSHException"}

\* Whether the transfer reaches sftp_client.close(): the statement after put/get.
ClosesChannel(moved) == moved = "ok"

\* UploadFile.execute / DownloadFile.execute: open an SFTP channel on the
\* registered manager's transport (opened), one put or get (moved), then close.
Transfer(op, method, first, second, opened, moved) ==
    LET m == InstanceAfterGet
        leaked == opened = "ok" /\ ~ClosesChannel(moved)
    IN
    /\ GetInstanceEffect
    /\ opened = "ok" => ssh_client[m] = "Connected"
    /\ leaked => channels[m] < MaxChannels
    /\ channels' = [channels EXCEPT ![m] = IF leaked THEN @ + 1 ELSE @]
    /\ call' = [NoCall EXCEPT
                  !.op = op, !.self = m, !.args = <<first, second>>,
                  !.before = ssh_client[m],
                  !.io = IF opened = "ok" THEN <<opened, moved>> ELSE <<opened>>,
                  !.events = <<<<"open_sftp">>>>
                             \o (IF opened = "ok" THEN <<<<method, first, second>>>> ELSE <<>>)
                             \o (IF opened = "ok" /\ ClosesChannel(moved)
                                 THEN <<<<"close">>>> ELSE <<>>),
                  !.raised = IF opened # "ok" THEN opened
                             ELSE IF moved # "ok" THEN moved ELSE ""]
    /\ UNCHANGED <<controllers, cli, observers, ssh_client, history, returned>>

UploadFile ==
    \E local \in Paths, remote \in Paths :
        \E opened \in {"ok"} \cup TransferErrors, moved \in {"ok"} \cup TransferErrors :
            /\ opened # "ok" => moved = "ok"
            /\ Transfer("UploadFile.execute", "put", local, remote, opened, moved)

DownloadFile ==
    \E remote \in Paths, local \in Paths :
        \E opened \in {"ok"} \cup TransferErrors, moved \in {"ok"} \cup TransferErrors :
            /\ opened # "ok" => moved = "ok"
            /\ Transfer("DownloadFile.execute", "get", remote, local, opened, moved)

\* create_api_function is declared with the parameters (self, function_type).
FactoryParams == <<"self", "function_type">>

\* Calling it through the class, APIFunctionFactory.create_api_function(...),
\* binds the arguments from the first parameter on: with fewer arguments than
\* parameters the call raises TypeError before the body runs.
ClassCallRaises(args) == IF Len(args) < Len(FactoryParams) THEN "TypeError" ELSE ""

\* The command object ExecuteRemoteCommand(remote_command).execute():
\* api_function = APIFunctionFactory.create_api_function("ExecuteRemoteCommand"),
\* then api_function.execute(remote_command), which is not reached.
RemoteCommandExecute(remote_command) ==
    /\ ClassCallRaises(<<"ExecuteRemoteCommand">>) # ""
    /\ call' = [NoCall EXCEPT
                  !.op = "commands.ExecuteRemoteCommand.execute",
                  !.args = remote_command,
                  !.events = << <<"APIFunctionFactory.create_api_function",
                                  "ExecuteRemoteCommand">> >>,
                  !.raised = ClassCallRaises(<<"ExecuteRemoteCommand">>)]
    /\ UNCHANGED <<controllers, cli, instance, created, observers, ssh_client, channels,
                   history, acquired, returned>>

DoRemoteCommandExecute ==
    \E remote_command \in RemoteCommands : RemoteCommandExecute(remote_command)

NextExecute ==
    \/ GetInstance
    \/ DoConnect
    \/ DoDisconnect
    \/ DoExecuteRemoteCommand
    \/ DoRemoteCommandExecute

SpecExecute == Init /\ [][NextExecute]_vars

NextTransfer ==
    \/ GetInstance
    \/ DoConnect
    \/ DoDisconnect
    \/ UploadFile
    \/ DownloadFile

SpecTransfer == Init /\ [][NextTransfer]_vars

----------------------------------------------------------------------------
(* GetSystemStats and the APIFunctionFactory *)

\* The four shell commands of GetSystemStats.execute: cpu, memory, disk, processes.
StatsCommands ==
    << <<"top -bn1 | grep 'Cpu(s)' | awk '{print $2+$4}'">>,
       <<"free -m | awk 'NR==2{printf \"Memory Usage: %s/%sMB (%.2f%%)\", $3,$2,$3*100/$2 }'">>,
       <<"df -h | awk '$NF==\"/\"{printf \"Disk Usage: %d/%dGB (%s)\", $3,$2,$5}'">>,
       <<"ps -e | wc -l">> >>

\* What the remote host may print for one of them.
StatsOutputs == {<<"x">>, <<"x", "\n">>}

RTuple(t) == [kind |-> "tuple", str |-> t, ref |-> 0]

\* The commands GetSystemStats issues: all four, unless one raises an error the
\* adapter does not catch, which ends the call there.
RECURSIVE Issued_StopAtFailure(_, _)
Issued_StopAtFailure(outcomes, i) ==
    IF i > Len(outcomes) THEN Len(outcomes)
    ELSE IF outcomes[i] # "ok" THEN i
    ELSE Issued_StopAtFailure(outcomes, i + 1)
RECURSIVE Issued(_, _)
Issued(outcomes, i) ==
    IF i > Len(outcomes) THEN Len(outcomes)
    ELSE IF AdapterRaised(outcomes[i]) # "" THEN i
    ELSE Issued(outcomes, i + 1)

\* GetSystemStats.execute(): four ExecuteRemoteCommand.execute calls in a row;
\* outcomes[i] and outs[i] are what the transport does with the i-th command.
GetSystemStats(outcomes, outs) ==
    LET m == InstanceAfterGet
        k == Issued(outcomes, 1)
        failed == AdapterRaised(outcomes[k])
    IN
    /\ GetInstanceEffect
    /\ \A i \in 1..4 : outcomes[i] = "ok" => ssh_client[m] = "Connected"
    /\ call' = [NoCall EXCEPT
                  !.op = "GetSystemStats.execute", !.self = m,
                  !.before = ssh_client[m],
                  !.io = SubSeq(outcomes, 1, k),
                  !.out = [i \in 1..k |-> IF outcomes[i] = "ok" THEN outs[i] ELSE <<>>],
                  !.events = [i \in 1..k |-> <<"exec_command">> \o StatsCommands[i]],
                  !.raised = failed,
                  !.result = IF failed # "" THEN RNone
                             ELSE RTuple([i \in 1..4 |->
                                      AdapterReturn(StatsCommands[i], outcomes[i], outs[i]).str])]
    /\ UNCHANGED <<controllers, cli, observers, ssh_client, channels, history, returned>>

\* What the transport does with one command: its output, or an error.
StatsErrors == {"SSHException", "TimeoutError"}
StatsResponses ==
    {<<"ok", out>> : out \in StatsOutputs} \cup {<<e, <<>>>> : e \in StatsErrors}

DoGetSystemStats ==
    \E resp \in [1..4 -> StatsResponses] :
        LET outcomes == [i \in 1..4 |-> resp[i][1]]
            outs == [i \in 1..4 |-> resp[i][2]]
        IN
        /\ \A i \in 1..4 : i > Issued(outcomes, 1) => resp[i] = <<"ok", <<"x">>>>
        /\ GetSystemStats(outcomes, outs)

\* The names create_api_function compares against, and some it does not know.
KnownFunctionTypes == {"ExecuteRemoteCommand", "GetSystemStats", "UploadFile", "DownloadFile"}
FunctionTypes == KnownFunctionTypes \cup {"UnknownName", "executeremotecommand", "Upload", ""}

RObj(class) == [kind |-> "obj", str |-> <<class>>, ref |-> 0]

\* The if/elif chain of create_api_function: the class it instantiates, "" for
\* the else branch.
FactoryClass_Swapped(function_type) ==
    IF function_type = "ExecuteRemoteCommand" THEN "ExecuteRemoteCommand"
    ELSE IF function_type = "GetSystemStats" THEN "GetSystemStats"
    ELSE IF function_type = "UploadFile" THEN "DownloadFile"
    ELSE IF function_type = "DownloadFile" THEN "UploadFile"
    ELSE ""
FactoryClass(function_type) ==
    IF function_type = "ExecuteRemoteCommand" THEN "ExecuteRemoteCommand"
    ELSE IF function_type = "GetSystemStats" THEN "GetSystemStats"
    ELSE IF function_type = "UploadFile" THEN "UploadFile"
    ELSE IF function_type = "DownloadFile" THEN "DownloadFile"
    ELSE ""

CreateApiFunction(function_type) ==
    /\ call' = [NoCall EXCEPT
                  !.op = "create_api_function", !.args = <<function_type>>,
                  !.raised = IF FactoryClass(function_type) = "" THEN "ValueError" ELSE "",
                  !.result = IF FactoryClass(function_type) = "" THEN RNone
                             ELSE RObj(FactoryClass(function_type))]
    /\ UNCHANGED <<controllers, cli, instance, created, observers, ssh_client, channels, history,
                   acquired, returned>>

DoCreateApiFunction == \E function_type \in FunctionTypes : CreateApiFunction(function_type)

NextApi ==
    \/ GetInstance
    \/ DoConnect
    \/ DoDisconnect
    \/ DoCreateApiFunction
    \/ DoGetSystemStats

SpecApi == Init /\ [][NextApi]_vars

----------------------------------------------------------------------------
(* Commands and the SSHCommandInvoker *)

Filenames == {"testfile.txt", "notes.md"}

\* Command objects bound to the registered ConnectionManager m.
CommandsOn(m) ==
    {[kind |-> k, conn |-> m, filename |-> ""] : k \in {"ListFilesCommand", "NeofetchCommand"}}
    \cup {[kind |-> "RemoveFileCommand", conn |-> m, filename |-> f] : f \in Filenames}

\* The string a command's execute() passes to its connection's execute_command.
CommandString_NoSpace(cmd) ==
    CASE cmd.kind = "ListFilesCommand" -> <<"ls -l">>
      [] cmd.kind = "NeofetchCommand" -> <<"neofetch">>
      [] cmd.kind = "RemoveFileCommand" -> <<"rm" \o cmd.filename>>
CommandString(cmd) ==
    CASE cmd.kind = "ListFilesCommand" -> <<"ls -l">>
      [] cmd.kind = "NeofetchCommand" -> <<"neofetch">>
      [] cmd.kind = "RemoveFileCommand" -> <<"rm " \o cmd.filename>>

\* What the remote host may print for a command run through the invoker.
InvokerOutputs == {<<"x">>, <<" ", "x", "\n">>}

\* history.append((command, result))
HistoryAfter_Prepend(h, cmd, result) == <<<<cmd, result>>>> \o h
HistoryAfter(h, cmd, result) == Append(h, <<cmd, result>>)

\* SSHCommandInvoker.execute_command(cmd): cmd.execute() runs the command string on
\* the manager's transport and returns the decoded output, or raises; the
\* invoker records (cmd, result) and returns result. An error leaves the call
\* before the append.
\* Whether the append is reached: only when command.execute() returned.
Records_Always(outcome) == TRUE
Records(outcome) == outcome = "ok"

InvokerExecute(cmd, outcome, out) ==
    /\ outcome = "ok" => ssh_client[cmd.conn] = "Connected"
    /\ Records(outcome) => Len(history) < MaxHistory
    /\ history' = IF Records(outcome)
                  THEN HistoryAfter(history, cmd, IF outcome = "ok" THEN RStr(out) ELSE RNone)
                  ELSE history
    /\ returned' = IF outcome = "ok" THEN returned + 1 ELSE returned
    /\ call' = [NoCall EXCEPT
                  !.op = "SSHCommandInvoker.execute_command", !.self = cmd.conn,
                  !.args = <<cmd.kind, cmd.filename>>,
                  !.before = ssh_client[cmd.conn],
                  !.io = <<outcome>>,
                  !.out = IF outcome = "ok" THEN out ELSE <<>>,
                  !.events = << <<"command.execute", cmd.kind>>,
                                <<"exec_command">> \o CommandString(cmd) >>,
                  !.raised = IF outcome = "ok" THEN "" ELSE outcome,
                  !.result = IF outcome = "ok" THEN RStr(out) ELSE RNone]
    /\ UNCHANGED <<controllers, cli, instance, created, observers, ssh_client, channels, acquired>>

DoInvoke ==
    \E m \in Managers : \E cmd \in CommandsOn(m) :
        \E outcome \in {"ok"} \cup AnyError, out \in InvokerOutputs :
            InvokerExecute(cmd, outcome, out)

\* cmd.execute() called directly: return self.ssh_connection.execute_command(<string>);
\* the connection returns the decoded output or raises.
CommandExecute(cmd, outcome, out) ==
    /\ outcome = "ok" => ssh_client[cmd.conn] = "Connected"
    /\ call' = [NoCall EXCEPT
                  !.op = "command.execute", !.self = cmd.conn,
                  !.args = <<cmd.kind, cmd.filename>>,
                  !.before = ssh_client[cmd.conn],
                  !.io = <<outcome>>,
                  !.out = IF outcome = "ok" THEN out ELSE <<>>,
                  !.events = << <<"execute_command">> \o CommandString(cmd) >>,
                  !.raised = IF outcome = "ok" THEN "" ELSE outcome,
                  !.result = IF outcome = "ok" THEN RStr(out) ELSE RNone]
    /\ UNCHANGED <<controllers, cli, instance, created, observers, ssh_client, channels, history,
                   acquired, returned>>

DoCommandExecute ==
    \E m \in Managers : \E cmd \in CommandsOn(m) :
        \E outcome \in {"ok"} \cup AnyError, out \in InvokerOutputs :
            CommandExecute(cmd, outcome, out)

\* str(command) of a command object, which defines no __str__.
CommandText(cmd) == "<" \o cmd.kind \o " object>"

\* str(result) inside the f-string.
ResultText(result) == IF result.kind = "none" THEN <<"None">> ELSE result.str

\* f"Executed: {command} with result: {result}"
HistoryLine(entry) ==
    <<"Executed: ", CommandText(entry[1]), " with result: ">> \o ResultText(entry[2])

\* The print calls of the loop over self.history, in order.
RenderHistory_Reversed(h) == [i \in 1..Len(h) |-> <<"print">> \o HistoryLine(h[Len(h) + 1 - i])]
RenderHistory(h) == [i \in 1..Len(h) |-> <<"print">> \o HistoryLine(h[i])]

\* SSHCommandInvoker.show_history()
ShowHistory ==
    /\ call' = [NoCall EXCEPT !.op = "show_history", !.events = RenderHistory(history)]
    /\ UNCHANGED <<controllers, cli, instance, created, observers, ssh_client, channels, history,
                   acquired, returned>>

NextInvoker ==
    \/ GetInstance
    \/ DoConnect
    \/ DoDisconnect
    \/ DoInvoke
    \/ DoCommandExecute
    \/ ShowHistory

SpecInvoker == Init /\ [][NextInvoker]_vars

----------------------------------------------------------------------------
(* SSHController *)

\* The (host, port, username, password, key_path) a controller is built with.
ControllerConfigs == ConnectParams \cup {<<"pi.local", "2222", "pi", "raspberry", "None">>}

\* The observers __init__ attaches, in the order of its two attach calls.
ControllerObservers_AlertFirst == <<"ConnectionAlertSystem", "ConnectionStatusLogger">>
ControllerObservers == <<"ConnectionStatusLogger", "ConnectionAlertSystem">>

\* SSHController.__init__: get_instance(), the five fields, two attach calls.
ControllerInit_AttachOnce(cfg) ==
    LET m == InstanceAfterGet IN
    /\ Len(controllers) < MaxControllers
    /\ GetInstanceEffect
    /\ controllers' = Append(controllers,
                             [connection_manager |-> m, host |-> cfg[1], port |-> cfg[2],
                              username |-> cfg[3], password |-> cfg[4], key_path |-> cfg[5]])
    /\ observers' = [observers EXCEPT
                       ![m] = IF @ = <<>> THEN ControllerObservers ELSE @]
    /\ UNCHANGED <<ssh_client, channels, history, returned>>
ControllerInit(cfg) ==
    LET m == InstanceAfterGet IN
    /\ Len(controllers) < MaxControllers
    /\ GetInstanceEffect
    /\ controllers' = Append(controllers,
                             [connection_manager |-> m, host |-> cfg[1], port |-> cfg[2],
                              username |-> cfg[3], password |-> cfg[4], key_path |-> cfg[5]])
    /\ observers' = [observers EXCEPT ![m] = @ \o ControllerObservers]
    /\ UNCHANGED <<ssh_client, channels, history, returned>>

ControllerInitCall(cfg) ==
    [NoCall EXCEPT
       !.op = "SSHController", !.self = Len(controllers) + 1, !.args = cfg,
       !.before = ssh_client[InstanceAfterGet],
       !.events = <<<<"get_instance">>>>
                  \o [i \in 1..Len(ControllerObservers) |-> <<"attach", ControllerObservers[i]>>]]

NewController(cfg) ==
    /\ ControllerInit(cfg)
    /\ call' = ControllerInitCall(cfg)
    /\ UNCHANGED cli

\* The arguments connect() hands to the manager, from the stored fields.
ForwardedParams_Swapped(ctl) == <<ctl.host, ctl.port, ctl.password, ctl.username, ctl.key_path>>
ForwardedParams(ctl) == <<ctl.host, ctl.port, ctl.username, ctl.password, ctl.key_path>>

\* SSHController.connect(): connection_manager.connect(...), then the view shows
\* "Connected to " + host; an error of the manager ends the call before that.
ControllerConnectCall(c, outcome, n) ==
    LET ctl == controllers[c]
        m == ctl.connection_manager
        inner == ConnectCall(m, ForwardedParams(ctl), outcome, n)
    IN [NoCall EXCEPT
          !.op = "SSHController.connect", !.self = c,
          !.before = ssh_client[m],
          !.io = <<outcome>>,
          !.events = <<<<"connection_manager.connect">> \o ForwardedParams(ctl)>>
                     \o inner.events
                     \o (IF inner.raised = ""
                         THEN <<<<"show_message", "Connected to " \o ctl.host>>>>
                         ELSE <<>>),
          !.raised = inner.raised,
          !.raiser = inner.raiser]

ControllerConnectEffect(c, outcome) ==
    /\ ssh_client' = [ssh_client EXCEPT
                        ![controllers[c].connection_manager] = ConnectStatus(@, outcome)]
    /\ UNCHANGED <<instance, created, observers, channels, history, acquired, returned,
                   controllers>>

ControllerConnect(c, outcome, n) ==
    /\ ControllerConnectEffect(c, outcome)
    /\ call' = ControllerConnectCall(c, outcome, n)
    /\ UNCHANGED cli

\* SSHController.disconnect(): connection_manager.disconnect(), then the view
\* shows "Disconnected".
ControllerDisconnectCall(c, n) ==
    LET m == controllers[c].connection_manager
        inner == DisconnectCall(m, n)
    IN [NoCall EXCEPT
          !.op = "SSHController.disconnect", !.self = c,
          !.before = ssh_client[m],
          !.events = <<<<"connection_manager.disconnect">>>>
                     \o inner.events
                     \o (IF inner.raised = ""
                         THEN <<<<"show_message", "Disconnected">>>>
                         ELSE <<>>),
          !.raised = inner.raised,
          !.raiser = inner.raiser]

ControllerDisconnectEffect(c) ==
    /\ ssh_client' = [ssh_client EXCEPT
                        ![controllers[c].connection_manager] = DisconnectStatus(@)]
    /\ channels' = [channels EXCEPT ![controllers[c].connection_manager] = 0]
    /\ UNCHANGED <<instance, created, observers, history, acquired, returned, controllers>>

ControllerDisconnect(c, n) ==
    /\ ControllerDisconnectEffect(c)
    /\ call' = ControllerDisconnectCall(c, n)
    /\ UNCHANGED cli

\* The methods the class SSHController defines.
ControllerMethods == {"__init__", "connect", "execute_command", "disconnect"}

\* controller.<name>() for a name the class does not define: the attribute
\* lookup raises AttributeError before anything is called.
LookupRaises(name) == IF name \in ControllerMethods THEN "" ELSE "AttributeError"

\* controller.is_connected()
IsConnected(c) ==
    /\ LookupRaises("is_connected") # ""
    /\ call' = [NoCall EXCEPT
                  !.op = "SSHController.is_connected", !.self = c,
                  !.before = ssh_client[controllers[c].connection_manager],
                  !.raised = LookupRaises("is_connected")]
    /\ UNCHANGED <<instance, created, observers, ssh_client, channels, history, acquired,
                   returned, controllers, cli>>

\* Which update call raises, when one does: one more than the length for none.
NotifyChoices(c) == 1..(Len(observers[controllers[c].connection_manager]) + 1)

DoNewController == \E cfg \in ControllerConfigs : NewController(cfg)
DoControllerConnect ==
    \E c \in 1..Len(controllers), outcome \in ConnectOutcomes :
        \E n \in NotifyChoices(c) : ControllerConnect(c, outcome, n)
DoControllerDisconnect ==
    \E c \in 1..Len(controllers) : \E n \in NotifyChoices(c) : ControllerDisconnect(c, n)
DoIsConnected == \E c \in 1..Len(controllers) : IsConnected(c)

NextController ==
    \/ DoNewController
    \/ DoControllerConnect
    \/ DoControllerDisconnect
    \/ DoIsConnected

SpecController == Init /\ [][NextController]_vars

----------------------------------------------------------------------------
(* The command-line menu of main() *)

\* How the process ends when an exception reaches the top of main(): with a
\* traceback and exit code 1.
Crashed == [cli EXCEPT !.pc = "crashed", !.exit_code = 1]

\* One turn of the while loop starts with main_menu(), which prints the menu,
\* and the prompt for a choice.
InMenu == cli.pc = "menu" /\ cli.menus < MaxMenus
MenuShown(next) == [next EXCEPT !.menus = @ + 1]

\* main() up to its loop: reads the [SSH] section of config.ini (<<>>: there is
\* none, config["SSH"] raises KeyError), builds the controller and the invoker.
MainStart(cfg) ==
    /\ cli.pc = "not started"
    /\ IF cfg = <<>>
       THEN /\ cli' = Crashed
            /\ call' = [NoCall EXCEPT !.op = "main", !.args = <<"start">>,
                                      !.raised = "KeyError"]
            /\ UNCHANGED <<instance, created, observers, ssh_client, channels, history,
                           acquired, returned, controllers>>
       ELSE /\ ControllerInit(cfg)
            /\ cli' = [cli EXCEPT !.pc = "menu", !.controller = Len(controllers) + 1]
            /\ call' = [ControllerInitCall(cfg) EXCEPT !.op = "main", !.args = <<"start">>]

\* Choice 1, connect_ssh: a console line, controller.connect(), a console line.
CliConnect(outcome, n) ==
    LET inner == ControllerConnectCall(cli.controller, outcome, n) IN
    /\ InMenu
    /\ ControllerConnectEffect(cli.controller, outcome)
    /\ cli' = MenuShown(IF inner.raised = "" THEN cli ELSE Crashed)
    /\ call' = [inner EXCEPT
                  !.op = "main", !.args = <<"1">>,
                  !.events = <<<<"console.print", "Connecting to SSH...">>>> \o inner.events
                             \o (IF inner.raised = ""
                                 THEN <<<<"console.print", "Connected.">>>> ELSE <<>>)]

\* check_ssh_connection starts with controller.is_connected(), a method the
\* controller does not have: the choice ends there, and the process with it.
CheckSshConnectionRaises(args, printed) ==
    /\ InMenu
    /\ LookupRaises("is_connected") # ""
    /\ cli' = MenuShown(Crashed)
    /\ call' = [NoCall EXCEPT
                  !.op = "main", !.self = cli.controller, !.args = args,
                  !.before = ssh_client[controllers[cli.controller].connection_manager],
                  !.events = printed \o <<<<"controller.is_connected">>>>,
                  !.raised = LookupRaises("is_connected")]
    /\ UNCHANGED <<instance, created, observers, ssh_client, channels, history, acquired,
                   returned, controllers>>

\* Choice 2: prompts for the command, then execute_remote_command.
CliExecuteRemoteCommand(command) == CheckSshConnectionRaises(<<"2">> \o command, <<>>)

\* Choice 3, execute_neofetch_command, and choice 4, execute_list_files_command.
CliNeofetch == CheckSshConnectionRaises(<<"3">>, <<>>)
CliListFiles == CheckSshConnectionRaises(<<"4">>, <<>>)

\* Choice 5, disconnect_ssh: a console line, controller.disconnect(), a console line.
CliDisconnect(n) ==
    LET inner == ControllerDisconnectCall(cli.controller, n) IN
    /\ InMenu
    /\ ControllerDisconnectEffect(cli.controller)
    /\ cli' = MenuShown(IF inner.raised = "" THEN cli ELSE Crashed)
    /\ call' = [inner EXCEPT
                  !.op = "main", !.args = <<"5">>,
                  !.events = <<<<"console.print", "Disconnecting from SSH...">>>> \o inner.events
                             \o (IF inner.raised = ""
                                 THEN <<<<"console.print", "Disconnected.">>>> ELSE <<>>)]

\* Choice 6: a console line, then "if controller.is_connected():", which raises
\* before disconnect_ssh and sys.exit() are reached.
CliExit == CheckSshConnectionRaises(<<"6">>, <<<<"console.print", "Exiting the program.">>>>)

DoMainStart == \E cfg \in ControllerConfigs \cup {<<>>} : MainStart(cfg)
DoCliConnect ==
    /\ InMenu
    /\ \E outcome \in ConnectOutcomes : \E n \in NotifyChoices(cli.controller) :
         CliConnect(outcome, n)
DoCliExecuteRemoteCommand == \E command \in RemoteCommands : CliExecuteRemoteCommand(command)
DoCliDisconnect ==
    /\ InMenu
    /\ \E n \in NotifyChoices(cli.controller) : CliDisconnect(n)

NextCli ==
    \/ DoMainStart
    \/ DoCliConnect
    \/ DoCliExecuteRemoteCommand
    \/ CliNeofetch
    \/ CliListFiles
    \/ DoCliDisconnect
    \/ CliExit

SpecCli == Init /\ [][NextCli]_vars

----------------------------------------------------------------------------
(* Reading a call record *)

IsUpdate(e) == e[1] = "update"

\* The update calls of a call, in order, as (observer, status) pairs.
Updates(events) ==
    LET u == SelectSeq(events, IsUpdate)
    IN [i \in 1..Len(u) |-> <<u[i][2], u[i][3]>>]

\* What notifying every entry of list once, in list order, looks like.
OncePerEntry(list, status) == [i \in 1..Len(list) |-> <<list[i], status>>]

Count(seq, x) == Cardinality({i \in 1..Len(seq) : seq[i] = x})

Distinct(seq) == \A i, j \in 1..Len(seq) : seq[i] = seq[j] => i = j

\* The managers whose transport holds a session.
Live == {m \in Managers : ssh_client[m] = "Connected"}

\* The failures the design calls ConnectionError: connect, authentication and
\* reset failures of the transport.
ConnectionErrorKinds == AnyError

----------------------------------------------------------------------------
(* Claims *)

\* C1: a connect that returns, started Disconnected, followed by a disconnect
\* that returns, on the same manager, moves the status Disconnected ->
\* Connected -> Disconnected; each of the two calls makes one update call per
\* attached observer entry, in attachment order, with "Connected" for connect
\* and "Disconnected" for disconnect (an observer attached once is called
\* exactly once).
C1_ConnectThenDisconnectNotifies ==
    [][ ( /\ call.op = "connect" /\ call.raised = "" /\ call.before = "Disconnected"
          /\ call'.op = "disconnect" /\ call'.self = call.self /\ call'.raised = "" )
        => LET m == call.self IN
           /\ ssh_client[m] = "Connected"
           /\ call'.before = "Connected"
           /\ ssh_client'[m] = "Disconnected"
           /\ Updates(call.events) = OncePerEntry(observers[m], "Connected")
           /\ Updates(call'.events) = OncePerEntry(observers'[m], "Disconnected")
           /\ \A o \in ObserverIds :
                /\ Count(Updates(call.events), <<o, "Connected">>) = Count(observers[m], o)
                /\ Count(Updates(call'.events), <<o, "Disconnected">>) = Count(observers'[m], o)
      ]_vars

\* C1 witness: a disconnect returned on a manager that was Connected, with two
\* different observers attached, both told "Disconnected" in attachment order.
C1_Witness ==
    /\ call.op = "disconnect" /\ call.raised = "" /\ call.before = "Connected"
    /\ Len(observers[call.self]) = 2
    /\ Distinct(observers[call.self])
    /\ Updates(call.events) = OncePerEntry(observers[call.self], "Disconnected")

\* C2: the status of every connection is Connected or Disconnected; it starts
\* Disconnected, changes to Connected only in a connect call whose transport connect
\* succeeded, and changes to Disconnected only in a disconnect call.
C2_StatusMachine ==
    /\ \A m \in ManagerIds : ssh_client[m] = "Disconnected"
    /\ [](\A m \in ManagerIds : ssh_client[m] \in {"Connected", "Disconnected"})
    /\ [][ \A m \in ManagerIds :
             ssh_client'[m] # ssh_client[m] =>
               \/ /\ ssh_client[m] = "Disconnected" /\ ssh_client'[m] = "Connected"
                  /\ call'.op = "connect" /\ call'.self = m /\ call'.io = <<"ok">>
               \/ /\ ssh_client[m] = "Connected" /\ ssh_client'[m] = "Disconnected"
                  /\ call'.op = "disconnect" /\ call'.self = m
       ]_vars

\* C2 witness: a manager is back to Disconnected after a disconnect that found it
\* Connected.
C2_Witness ==
    /\ call.op = "disconnect" /\ call.before = "Connected"
    /\ ssh_client[call.self] = "Disconnected"

\* C3 (as claimed): connect on a Connected manager fails with a ConnectionError
\* (a connect, authentication or reset failure) and does not connect again.
C3_ConnectWhileConnectedFails ==
    (call.op = "connect" /\ call.before = "Connected")
        => /\ call.raised \in ConnectionErrorKinds
           /\ call.io # <<"ok">>

\* C4 (as claimed): every connect call and every disconnect call has notified
\* every attached observer when it gives control back.
C4_EveryCallNotifies ==
    call.op \in {"connect", "disconnect"}
        => \A i \in 1..Len(observers[call.self]) :
             \E j \in 1..Len(call.events) :
               /\ call.events[j][1] = "update"
               /\ call.events[j][2] = observers[call.self][i]

\* C4 (amended): every connect call and every disconnect call that returns has,
\* inside the call, notified every attached observer with the new status.
C4_ReturnedCallNotified ==
    (call.op \in {"connect", "disconnect"} /\ call.raised = "")
        => LET status == IF call.op = "connect" THEN "Connected" ELSE "Disconnected"
           IN /\ \A i \in 1..Len(observers[call.self]) :
                   \E j \in 1..Len(call.events) :
                     call.events[j] = <<"update", observers[call.self][i], status>>
              /\ Len(Updates(call.events)) = Len(observers[call.self])

\* C4 witness: a connect returned on a manager with two observers attached.
C4_Witness ==
    /\ call.op = "connect" /\ call.raised = ""
    /\ Len(observers[call.self]) = 2
    /\ Len(Updates(call.events)) = 2

\* C5: with no reset_instance in between, every get_instance call returns the one
\* registered manager, which only the first such call creates.
C5_SameInstance ==
    /\ \A a \in acquired : a = instance
    /\ instance # 0 => instance \in acquired /\ instance \in Managers
    /\ call.op = "get_instance" => call.result = RRef(instance)

\* C5 witness: a get_instance call returned the manager an earlier call created.
C5_Witness ==
    /\ call.op = "get_instance" /\ call.io = <<"existing">>
    /\ call.result = RRef(instance)
    /\ acquired = {instance}

\* C6 (as claimed): at most one manager holds a live transport session.
C6_AtMostOneLiveConnection == Cardinality(Live) <= 1


\* C7 (as claimed): every invoker call appends one entry, so the history has one
\* entry per call made.
C7_OneEntryPerCall ==
    [][ call'.op = "SSHCommandInvoker.execute_command"
        => /\ Len(history') = Len(history) + 1
           /\ history'[Len(history')][2] = call'.result ]_vars

\* C7 (amended): an execute_command call whose command.execute() returns
\* runs it once, appends exactly that (command, result) pair to the end of the
\* history and returns the result; a call whose command.execute() raises appends
\* nothing. The history holds one entry per returned call, and entries once
\* written stay as they are.
C7_OneEntryPerReturnedCall ==
    /\ [](Len(history) = returned)
    /\ [][ /\ \A i \in 1..Len(history) : i <= Len(history') /\ history'[i] = history[i]
           /\ Len(history') \in {Len(history), Len(history) + 1}
           /\ Len(history') = Len(history) + 1
                => /\ call'.op = "SSHCommandInvoker.execute_command"
                   /\ call'.raised = ""
                   /\ Count(call'.events, <<"command.execute", call'.args[1]>>) = 1
                   /\ history'[Len(history')][1].kind = call'.args[1]
                   /\ history'[Len(history')][1].filename = call'.args[2]
                   /\ history'[Len(history')][1].conn = call'.self
                   /\ history'[Len(history')][2] = call'.result
                   /\ call'.result = RStr(call'.out)
           /\ (call'.op = "SSHCommandInvoker.execute_command" /\ returned' # returned)
                => Len(history') = Len(history) + 1
       ]_vars

\* C7 witness: two invoker calls returned, with different commands, and the
\* history holds them in call order, the last one being the call just made.
C7_Witness ==
    /\ call.op = "SSHCommandInvoker.execute_command" /\ call.raised = ""
    /\ returned = 2 /\ Len(history) = 2
    /\ history[1][1].kind # history[2][1].kind
    /\ history[2][1].kind = call.args[1]
    /\ history[2][2] = call.result

\* The calls of one transfer call on its SFTP channel.
Opens(events) == Count(events, <<"open_sftp">>)
Closes(events) == Count(events, <<"close">>)
Moves(events, method, first, second) == Count(events, <<method, first, second>>)

\* C8 (as claimed): an UploadFile.execute call that opened its channel made one
\* put(local, remote) on it and closed it once, also when put raised.
C8_UploadClosesChannel ==
    (call.op = "UploadFile.execute" /\ call.io # <<>> /\ call.io[1] = "ok")
        => /\ Opens(call.events) = 1
           /\ Moves(call.events, "put", call.args[1], call.args[2]) = 1
           /\ Closes(call.events) = 1

\* C9 (as claimed): a DownloadFile.execute call opens one channel, makes one
\* get(remote, local), and has closed the channel when it ends, also when get
\* raised: no channel opened by a transfer call is open after the call.
C9_NoChannelLeftOpen ==
    /\ (call.op = "DownloadFile.execute" /\ call.io # <<>> /\ call.io[1] = "ok")
         => /\ Opens(call.events) = 1
            /\ Moves(call.events, "get", call.args[1], call.args[2]) = 1
            /\ Closes(call.events) = 1
    /\ \A m \in ManagerIds : channels[m] = 0

\* An independent reading of "s with the whitespace at both ends removed".
IsTrimOf(r, s) ==
    /\ r = <<>> \/ (r[1] \notin Whitespace /\ r[Len(r)] \notin Whitespace)
    /\ \E a \in 0..Len(s), b \in 0..Len(s) :
         /\ a + Len(r) + b = Len(s)
         /\ \A i \in 1..a : s[i] \in Whitespace
         /\ \A i \in 1..b : s[Len(s) + 1 - i] \in Whitespace
         /\ \A i \in 1..Len(r) : r[i] = s[a + i]

C11_VerbatimOutputs ==
    (call.op = "GetSystemStats.execute" /\ call.raised = "")
        => /\ call.result.kind = "tuple"
           /\ Len(call.result.str) = 4
           /\ \A i \in 1..4 : call.io[i] = "ok" => call.result.str[i] = call.out[i]

\* C11 amended: a GetSystemStats.execute() that returns has issued the four fixed
\* commands in the order cpu, memory, disk, processes and returns a 4-tuple whose
\* i-th element is the i-th output without its leading and trailing whitespace,
\* or the error string of the i-th command when the transport raised a caught
\* error.
C11_TrimmedOutputs ==
    (call.op = "GetSystemStats.execute" /\ call.raised = "")
        => /\ call.result.kind = "tuple"
           /\ Len(call.result.str) = 4
           /\ Len(call.events) = 4
           /\ \A i \in 1..4 :
                /\ call.events[i] = <<"exec_command">> \o StatsCommands[i]
                /\ call.io[i] = "ok" => IsTrimOf(call.result.str[i], call.out[i])
                /\ call.io[i] # "ok" =>
                     /\ call.io[i] \in TransportErrors
                     /\ call.result.str[i] =
                          <<"Error executing command '">> \o StatsCommands[i]
                              \o <<"': ", "str(" \o call.io[i] \o ")">>

\* C11 witness: all four commands printed a line ending in a newline and the
\* tuple holds the four lines without it.
C11_Witness ==
    /\ call.op = "GetSystemStats.execute"
    /\ call.raised = ""
    /\ call.io = <<"ok", "ok", "ok", "ok">>
    /\ call.out = <<<<"x", "\n">>, <<"x", "\n">>, <<"x", "\n">>, <<"x", "\n">>>>
    /\ call.result.str = <<<<"x">>, <<"x">>, <<"x">>, <<"x">>>>

\* C12: create_api_function(name) raises the unknown-function-type error
\* (ValueError in the code) for every name outside the four known names, and
\* for each known name returns an instance of the class of that same name.
C12_FactoryTotal ==
    call.op = "create_api_function"
        => LET name == call.args[1] IN
           /\ name \notin {"ExecuteRemoteCommand", "GetSystemStats", "UploadFile", "DownloadFile"}
                => (call.raised = "ValueError" /\ call.result = RNone)
           /\ name \in {"ExecuteRemoteCommand", "GetSystemStats", "UploadFile", "DownloadFile"}
                => (call.raised = "" /\ call.result = [kind |-> "obj", str |-> <<name>>, ref |-> 0])

\* C12 witness: a name that differs from a known one only in case was refused.
C12_Witness ==
    /\ call.op = "create_api_function"
    /\ call.args = <<"executeremotecommand">>
    /\ call.raised = "ValueError"

\* C13: a fixed command object's execute() makes exactly one execute_command call
\* on the connection it is bound to, with its fixed string ("ls -l", "neofetch",
\* "rm " followed by the filename, so "rm testfile.txt" for testfile.txt), and
\* returns what that call returned.
C13_FixedCommandStrings ==
    call.op = "command.execute"
        => LET kind == call.args[1]
               filename == call.args[2]
               expected == CASE kind = "ListFilesCommand" -> "ls -l"
                             [] kind = "NeofetchCommand" -> "neofetch"
                             [] kind = "RemoveFileCommand" -> "rm " \o filename
           IN
           /\ call.events = << <<"execute_command", expected>> >>
           /\ (kind = "RemoveFileCommand" /\ filename = "testfile.txt")
                => call.events[1][2] = "rm testfile.txt"
           /\ call.raised = "" => call.result = RStr(call.out)
           /\ call.raised # "" => call.result = RNone

\* C13 witness: RemoveFileCommand(filename="testfile.txt") ran "rm testfile.txt"
\* on a connected manager and returned its output untouched.
C13_Witness ==
    /\ call.op = "command.execute"
    /\ call.args = <<"RemoveFileCommand", "testfile.txt">>
    /\ call.events = << <<"execute_command", "rm testfile.txt">> >>
    /\ call.raised = ""
    /\ call.result = RStr(<<" ", "x", "\n">>)

\* s occurs in line as a run of consecutive pieces.
Contains(line, s) ==
    \E a \in 0..Len(line) :
        /\ a + Len(s) <= Len(line)
        /\ \A i \in 1..Len(s) : line[a + i] = s[i]

\* C18: show_history() prints one line per history entry, in execution order,
\* the i-th line containing the i-th entry's result, and leaves the history as
\* it was.
C18_ShowHistoryRendersAll ==
    [][call'.op = "show_history"
         => /\ history' = history
            /\ Len(call'.events) = Len(history)
            /\ \A i \in 1..Len(history) :
                 LET r == history[i][2] IN
                 /\ call'.events[i][1] = "print"
                 /\ Contains(Tail(call'.events[i]),
                             IF r.kind = "none" THEN <<"None">> ELSE r.str)]_vars

\* C18 witness: a history of two entries with different results was rendered as
\* two lines.
C18_Witness ==
    /\ call.op = "show_history"
    /\ Len(history) = 2
    /\ history[1][2] = RStr(<<"x">>)
    /\ history[2][2] = RStr(<<" ", "x", "\n">>)
    /\ Len(call.events) = 2

\* C17: over any sequence of attach and detach calls, attach(o) puts o behind
\* the observers attached before it, a detach(o) that returns takes one entry o
\* out of the list and leaves all other entries in their order, and a
\* notification calls the observers in the order of the list.
C17_AttachmentOrder ==
    [][LET m == call'.self
           old == observers[m]
           new == observers'[m]
       IN
       /\ call'.op = "attach" => new = old \o <<call'.args[1]>>
       /\ (call'.op = "detach" /\ call'.raised = "")
            => \E k \in 1..Len(old) :
                 /\ old[k] = call'.args[1]
                 /\ Len(new) = Len(old) - 1
                 /\ \A i \in 1..(k - 1) : new[i] = old[i]
                 /\ \A i \in k..Len(new) : new[i] = old[i + 1]
       /\ call'.op \in {"connect", "disconnect"}
            => LET u == Updates(call'.events) IN
               /\ Len(u) <= Len(old)
               /\ \A i \in 1..Len(u) : u[i][1] = old[i]]_vars

\* C17 witness: three different observers were attached, the first one was
\* detached, and a connect notified the remaining two in their attachment order.
C17_Witness ==
    /\ call.op = "connect"
    /\ call.raised = ""
    /\ observers[call.self] = <<"ConnectionAlertSystem", "Observer">>
    /\ Updates(call.events) = <<<<"ConnectionAlertSystem", "Connected">>,
                                <<"Observer", "Connected">>>>

IsShow(e) == e[1] = "show_message"

IsManagerCall(e) == e[1] \in {"connection_manager.connect", "connection_manager.disconnect"}

\* C19: SSHController.connect() calls the manager's connect once with exactly the
\* stored (host, port, username, password, key_path) and, after it returned,
\* shows "Connected to " + host; disconnect() calls the manager's disconnect
\* once and then shows "Disconnected"; when the manager's call raises, no
\* message is shown.
C19_ControllerForwards ==
    LET ctl == controllers[call.self]
        shows == SelectSeq(call.events, IsShow)
        calls == SelectSeq(call.events, IsManagerCall)
    IN
    /\ call.op = "SSHController.connect"
         => /\ calls = << <<"connection_manager.connect", ctl.host, ctl.port,
                            ctl.username, ctl.password, ctl.key_path>> >>
            /\ call.events[1] = calls[1]
            /\ call.raised = ""
                 => /\ shows = << <<"show_message", "Connected to " \o ctl.host>> >>
                    /\ call.events[Len(call.events)] = shows[1]
            /\ call.raised # "" => shows = <<>>
    /\ call.op = "SSHController.disconnect"
         => /\ calls = << <<"connection_manager.disconnect">> >>
            /\ call.events[1] = calls[1]
            /\ call.raised = ""
                 => /\ shows = << <<"show_message", "Disconnected">> >>
                    /\ call.events[Len(call.events)] = shows[1]
            /\ call.raised # "" => shows = <<>>

\* C19 witness: a controller built for pi.local connected and showed
\* "Connected to pi.local".
C19_Witness ==
    /\ call.op = "SSHController.connect"
    /\ call.raised = ""
    /\ controllers[call.self].host = "pi.local"
    /\ call.events[1] = <<"connection_manager.connect", "pi.local", "2222", "pi",
                          "raspberry", "None">>
    /\ call.events[Len(call.events)] = <<"show_message", "Connected to pi.local">>

\* C20: constructing an SSHController fetches the shared ConnectionManager and
\* attaches exactly two observers to it, the status logger first and the alert
\* system second; it changes nothing else: no connect, no notification.
C20_ConstructionAttachesTwo ==
    [][call'.op = "SSHController"
         => LET c == call'.self
                m == controllers'[c].connection_manager
            IN
            /\ c = Len(controllers) + 1
            /\ SubSeq(controllers', 1, Len(controllers)) = controllers
            /\ m = instance'
            /\ instance # 0 => m = instance
            /\ observers'[m] = observers[m] \o <<"ConnectionStatusLogger", "ConnectionAlertSystem">>
            /\ \A k \in ManagerIds \ {m} : observers'[k] = observers[k]
            /\ ssh_client' = ssh_client
            /\ channels' = channels
            /\ history' = history
            /\ \A i \in 1..Len(call'.events) :
                 call'.events[i][1] \notin {"update", "ssh_client.connect", "ssh_client.close"}]_vars

\* C20 witness: a second controller was constructed on the connected shared
\* manager, whose list now holds logger, alert, logger, alert.
C20_Witness ==
    /\ call.op = "SSHController"
    /\ call.self = 2
    /\ call.before = "Connected"
    /\ ssh_client[instance] = "Connected"
    /\ observers[instance] = <<"ConnectionStatusLogger", "ConnectionAlertSystem",
                               "ConnectionStatusLogger", "ConnectionAlertSystem">>

\* C14: the controller's is_connected() answers, and answers true exactly when
\* the status of its ConnectionManager is Connected.
C14_IsConnectedReflectsStatus ==
    call.op = "SSHController.is_connected"
        => /\ call.raised = ""
           /\ call.result.kind = "bool"
           /\ (call.result.str = <<"True">>)
                <=> (ssh_client[controllers[call.self].connection_manager] = "Connected")

IsDisconnectCall(e) == e[1] = "connection_manager.disconnect"

\* C15: menu choice 6 (Exit) disconnects first if and only if the connection is
\* up, then ends the process with exit code 0; no menu turn follows an Exit.
C15_ExitDisconnectsAndEndsWithZero ==
    [][/\ (call'.op = "main" /\ call'.args = <<"6">>)
            => /\ cli'.pc = "exited"
               /\ cli'.exit_code = 0
               /\ (SelectSeq(call'.events, IsDisconnectCall) # <<>>)
                    <=> (call'.before = "Connected")
       /\ cli.pc = "exited" => cli'.menus = cli.menus]_vars

\* C16: a menu choice 2, 3 or 4 never ends the process: whatever the remote
\* command does, the loop goes on; the process ends by an error only in the
\* connect of choice 1.
C16_CommandFailureKeepsLoop ==
    [][call'.op = "main"
         => /\ call'.args[1] \in {"2", "3", "4"} => (cli'.pc = "menu" /\ call'.raised = "")
            /\ cli'.pc = "crashed" => call'.args[1] \in {"start", "1"}]_vars

\* C23: disconnect() has no guard on the connection state: on a manager that
\* is Disconnected (never connected, or disconnected before) it still closes the
\* transport and notifies the attached observers with "Disconnected", every one
\* of them when no update raises; the state never makes it fail.
C23_DisconnectUnguarded ==
    (call.op = "disconnect" /\ call.before = "Disconnected")
        => /\ call.events # <<>>
           /\ call.events[1] = <<"ssh_client.close">>
           /\ ssh_client[call.self] = "Disconnected"
           /\ call.raised \in {"", "ObserverError"}
           /\ call.raised = ""
                => Updates(call.events) = OncePerEntry(observers[call.self], "Disconnected")
           /\ call.raised = "ObserverError"
                => /\ call.raiser \in 1..Len(observers[call.self])
                   /\ Len(Updates(call.events)) >= 1

\* C23 witness: a disconnect on a manager that was not connected closed the
\* transport and told both attached observers "Disconnected".
C23_Witness ==
    /\ call.op = "disconnect"
    /\ call.before = "Disconnected"
    /\ call.raised = ""
    /\ Len(observers[call.self]) = 2
    /\ Updates(call.events) = OncePerEntry(observers[call.self], "Disconnected")

\* C27: when an observer's update raises during a notification, the error leaves
\* connect/disconnect after the transport operation took effect, the observers
\* up to the raising one were notified, and those attached after it are not.
C27_RaisingObserverCutsNotification ==
    (call.op \in {"connect", "disconnect"} /\ call.raised = "ObserverError")
        => LET list == observers[call.self]
               status == IF call.op = "connect" THEN "Connected" ELSE "Disconnected"
           IN
           /\ call.events[1][1] = (IF call.op = "connect" THEN "ssh_client.connect"
                                   ELSE "ssh_client.close")
           /\ ssh_client[call.self] = status
           /\ call.raiser \in 1..Len(list)
           /\ Updates(call.events) = OncePerEntry(SubSeq(list, 1, call.raiser), status)
           /\ call.result = RNone

\* C27 witness: the first of two observers raised in a connect; the manager is
\* Connected and the second observer was not called.
C27_Witness ==
    /\ call.op = "connect"
    /\ call.raised = "ObserverError"
    /\ call.raiser = 1
    /\ Len(observers[call.self]) = 2
    /\ Len(Updates(call.events)) = 1
    /\ ssh_client[call.self] = "Connected"

\* C30: detach(o) for an o that is not in the list raises an error and leaves
\* the list as it was; for an o that is in the list, more than once included, it
\* takes out the earliest occurrence only.
C30_DetachAbsentOrEarliest ==
    [][call'.op = "detach"
         => LET m == call'.self
                o == call'.args[1]
                old == observers[m]
                new == observers'[m]
                at == {i \in 1..Len(old) : old[i] = o}
            IN
            /\ \A k \in ManagerIds \ {m} : observers'[k] = observers[k]
            /\ at = {} => (call'.raised = "ValueError" /\ new = old)
            /\ at # {}
                 => LET first == CHOOSE i \in at : \A j \in at : i <= j IN
                    /\ call'.raised = ""
                    /\ new = SubSeq(old, 1, first - 1) \o SubSeq(old, first + 1, Len(old))]_vars

\* C30 witness: an observer attached twice around another one was detached: the
\* first entry went, the later one is still there.
C30_Witness ==
    /\ call.op = "detach"
    /\ call.raised = ""
    /\ call.args = <<"ConnectionStatusLogger">>
    /\ observers[call.self] = <<"Observer", "ConnectionStatusLogger">>

\* C26: when command.execute() raises inside SSHCommandInvoker.execute_command,
\* the error reaches the caller as it is and the history is left unchanged: no
\* entry is recorded for the failed command.
C26_FailedCommandNotRecorded ==
    [][(call'.op = "SSHCommandInvoker.execute_command" /\ call'.io # <<"ok">>)
         => /\ call'.raised = call'.io[1]
            /\ call'.result = RNone
            /\ history' = history]_vars

\* C26 witness: a command raised in the invoker after one command had been
\* recorded; the history still holds that one entry.
C26_Witness ==
    /\ call.op = "SSHCommandInvoker.execute_command"
    /\ call.raised = "SSHException"
    /\ call.io = <<"SSHException">>
    /\ Len(history) = 1
    /\ returned = 1

\* C28 as written: GetSystemStats.execute() always issues exactly four remote
\* commands, in the order cpu, memory, disk, processes; a known transport
\* failure on one of them gives the error string in that element and the
\* remaining commands are still issued.
C28_AlwaysFourCommands ==
    call.op = "GetSystemStats.execute"
        => /\ Len(call.events) = 4
           /\ \A i \in 1..Len(call.events) :
                call.events[i] = <<"exec_command">> \o StatsCommands[i]

\* C28 amended: a GetSystemStats.execute() that returns has issued exactly the
\* four commands in the order cpu, memory, disk, processes, a failure with an SSH,
\* authentication or connection-reset error giving the error string in its
\* element without stopping the later commands; the first failure with any other
\* error ends the call with that error and the later commands are not issued.
C28_FourCommandsUnlessUnknownError ==
    call.op = "GetSystemStats.execute"
        => /\ \A i \in 1..Len(call.events) :
                call.events[i] = <<"exec_command">> \o StatsCommands[i]
           /\ Len(call.io) = Len(call.events)
           /\ \A i \in 1..Len(call.io) :
                call.io[i] \in {"SSHException", "AuthenticationException", "ConnectionResetError"}
                    => /\ i < 4 => Len(call.events) > i
                       /\ call.raised = ""
                            => call.result.str[i][1] = "Error executing command '"
           /\ call.raised = "" => Len(call.events) = 4
           /\ call.raised # ""
                => /\ call.raised = call.io[Len(call.io)]
                   /\ call.raised \notin {"ok", "SSHException", "AuthenticationException",
                                          "ConnectionResetError"}
                   /\ \A i \in 1..(Len(call.io) - 1) : call.io[i] # call.raised

\* C28 witness: the memory command failed with an SSH error; its element is the
\* error string and the disk and process commands were still issued.
C28_Witness ==
    /\ call.op = "GetSystemStats.execute"
    /\ call.io = <<"ok", "SSHException", "ok", "ok">>
    /\ call.raised = ""
    /\ Len(call.events) = 4
    /\ call.result.str[2][1] = "Error executing command '"
    /\ call.result.str[3] = <<"x">>

C24_TwoObserversPerController ==
    /\ \A c \in 1..Len(controllers) : controllers[c].connection_manager = instance
    /\ instance = 0 => controllers = <<>>
    /\ instance # 0 => Len(observers[instance]) = 2 * Len(controllers)
    /\ (call.op \in {"SSHController.connect", "SSHController.disconnect"} /\ call.raised = "")
         => Len(Updates(call.events)) = 2 * Len(controllers)

\* C24 witness: with two controllers constructed, a connect through one of them
\* delivered four notifications.
C24_Witness ==
    /\ Len(controllers) = 2
    /\ call.op = "SSHController.connect"
    /\ call.raised = ""
    /\ Len(observers[instance]) = 4
    /\ Len(Updates(call.events)) = 4

IsCheckAnswer(e) == e[1] = "check_ssh_connection.returned"

IsInvokerCall(e) == e[1] = "invoker.execute_command"

IsConnectCall(e) == e[1] = "connection_manager.connect"

\* C21: the command object ExecuteRemoteCommand(remote_command).execute() gets
\* the "ExecuteRemoteCommand" adapter from the APIFunctionFactory and returns the
\* adapter's result for remote_command: a string, the trimmed remote output or
\* the error string of a transport failure.
C21_CommandReturnsAdapterResult ==
    call.op = "commands.ExecuteRemoteCommand.execute"
        => /\ call.raised = ""
           /\ call.result.kind = "str"
           /\ \/ IsTrimOf(call.result.str, call.out)
              \/ call.result.str[1] = "Error executing command '"

C25_HistoryHoldsNone ==
    [][(call'.op = "main" /\ call'.args[1] \in {"3", "4"} /\ call'.before = "Connected")
         => /\ Len(history') = Len(history) + 1
            /\ history'[Len(history')][2] = RNone]_vars

====
